---- MODULE Spec2Model ----
(***************************************************************************)
(* dev-browser: the workspace server (workspace-server.ts), the Chrome     *)
(* launcher and WorkspaceManager (chrome-launcher part of client.ts) and   *)
(* the named-page client (client.ts), as state machines.                   *)
(*                                                                         *)
(* Node runs every handler on one thread: a handler runs without           *)
(* interruption from one await on real I/O to the next.  Each action below *)
(* is one such run: the code from a request's arrival (or from the         *)
(* resolution of the awaited I/O) up to the next await or the response.    *)
(***************************************************************************)
EXTENDS Integers, Sequences, FiniteSets, Bags, TLC

\* ---------------------------------------------------------------- bounds
MaxProcs == 2       \* browser processes ever spawned
MaxConns == 2       \* automation connections ever established
MaxPages == 2       \* pages ever created
MaxReq == 2         \* handlers suspended on an await at the same time
MaxTriggers == 2    \* termination triggers delivered
MaxCtx == 3         \* browser contexts ever created through the client

\* ------------------------------------------------------------- constants
None == "none"                      \* null / undefined / absent
WS == {"personal", "work"}          \* DEFAULT_CONFIG.workspaces
defaultWorkspaceWork == "work"      \* another default
defaultWorkspace == "personal"      \* DEFAULT_CONFIG.defaultWorkspace
Unknown == "other"                  \* a name the configuration does not hold
Names == {"home", "docs"}           \* page names the clients ask for

Pids == 1..MaxProcs
Cids == 1..MaxConns
Tids == 1..MaxPages
Ctxs == 1..MaxCtx

maxRetries == 30                    \* waitForCDP(port, maxRetries = 30, delayMs = 500)
Failures == {"ECONNREFUSED", "HTTP 500", "HTTP 503"}   \* messages of a failed poll

VARIABLES
  \* WorkspaceManager and the launcher
  workspaces,            \* Map<string, ChromeInstance>: [proc, ep], proc = 0 when absent
  currentWorkspace,      \* string | null
  platform,              \* os.platform() of the host: "darwin" | "linux"
  cachedVirtualDisplay,  \* "undefined" | None (null) | "display"
  procs,                 \* the OS processes spawned: [ws, st, killed, timer, forced,
                         \*   headless, windowPosition]
  \* workspace server
  browserConnections,    \* Map<string, Browser>: connection id, 0 when absent
  conns,                 \* the Browser objects: [ep, st]
  pageRegistry,          \* Map<string, PageEntry>: [tid, workspace], tid = 0 when absent
  pages,                 \* the Page objects: [conn, st, name]
  reqs,                  \* the handlers suspended on an await (a bag of records)
  cleaningUp,            \* the one-shot flag of cleanup
  shut,                  \* where cleanup is suspended
  shutlog,               \* the shutdown steps performed, in order
  listening,             \* the HTTP server accepts connections
  handlers,              \* the signal handlers are installed
  exited,                \* process.exit was called (or the OS ended the process)
  triggers,              \* termination triggers delivered so far
  last,                  \* the response (or outcome) of the handler step just run
  \* one call of waitForCDP
  wait,                  \* [pc, i, lastError, polls, seen, out]
  \* the named-page client (connect() of client.ts) and the browser it talks to
  registry,              \* Map<string, BrowserContext>: context id, 0 when absent
  contexts,              \* the browser's contexts, each with its page: [st, marker]
  cl                     \* the client call in progress: [pc, name, k]

svars == <<workspaces, currentWorkspace, platform, cachedVirtualDisplay, procs,
           browserConnections, conns, pageRegistry, pages, reqs, cleaningUp,
           shut, shutlog, listening, handlers, exited, triggers>>
cvars == <<wait, registry, contexts, cl>>

vars == <<svars, last, cvars>>

\* ------------------------------------------------------------ data shapes
NoInst == [proc |-> 0, ep |-> 0]
\* a slot of the process table: killed is ChildProcess.killed, timer the pending
\* grace timer of killChrome, forced whether SIGKILL was sent; headless and
\* windowPosition are the --headless=new and --window-position arguments
NoProc == [ws |-> None, st |-> "free", killed |-> FALSE, timer |-> FALSE, forced |-> FALSE,
           headless |-> FALSE, windowPosition |-> None]
NoEntry == [tid |-> 0, workspace |-> None]
NoShut == [pc |-> "idle", by |-> None, seenT |-> {}, seenC |-> {}]
Resp(op, arg, res, val, ep) == [op |-> op, arg |-> arg, res |-> res, val |-> val, ep |-> ep]
Step == Resp("step", None, None, 0, 0)   \* a step that answers nothing

Min(S) == CHOOSE x \in S : \A y \in S : x <= y
Free(T) == {i \in DOMAIN T : T[i].st = "free"}
\* a handler may suspend: room among the suspended handlers
Room == BagCardinality(reqs) < MaxReq
Suspended == BagToSet(reqs)
suspend(R, r) == R (+) SetToBag({r})
resume(R, r) == R (-) SetToBag({r})
Req(kind, pc, n, name, proc, id) ==
  [kind |-> kind, pc |-> pc, ws |-> n, name |-> name, proc |-> proc, id |-> id,
   headless |-> FALSE]

tracked(n) == n \in WS /\ workspaces[n].proc # 0

\* getCurrentInstance: the instance of the current workspace, or null
getCurrentInstance ==
  IF currentWorkspace = None THEN NoInst ELSE workspaces[currentWorkspace]

\* states that report a launch in flight as "starting"
getWorkspaceStatesStarting ==
  [n \in WS |-> [status |-> IF workspaces[n].proc # 0 THEN "running"
                             ELSE IF \E r \in BagToSet(reqs) : r.ws = n /\ r.pc \in {"display", "cdp"}
                             THEN "starting" ELSE "stopped",
                 wsEndpoint |-> workspaces[n].ep,
                 pid |-> workspaces[n].proc]]

\* getWorkspaceStates: one state per configured name
getWorkspaceStates ==
  [n \in WS |-> [status |-> IF workspaces[n].proc # 0 THEN "running" ELSE "stopped",
                 wsEndpoint |-> workspaces[n].ep,
                 pid |-> workspaces[n].proc]]

\* ------------------------------------------------------------------ Init
InitServer ==
  /\ workspaces = [n \in WS |-> NoInst]
  /\ currentWorkspace = None
  /\ cachedVirtualDisplay = "undefined"
  /\ procs = [p \in Pids |-> NoProc]
  /\ browserConnections = [n \in WS |-> 0]
  /\ conns = [c \in Cids |-> [ep |-> 0, st |-> "free"]]
  /\ pageRegistry = [x \in Names |-> NoEntry]
  /\ pages = [t \in Tids |-> [conn |-> 0, st |-> "free", name |-> None]]
  /\ reqs = EmptyBag
  /\ cleaningUp = FALSE
  /\ shut = NoShut
  /\ shutlog = <<>>
  /\ listening = TRUE
  /\ handlers = TRUE
  /\ exited = FALSE
  /\ triggers = 0
  /\ last = Step

\* no waitForCDP call, no client
NoWait == [pc |-> "idle", i |-> 0, lastError |-> None, polls |-> 0, seen |-> None, out |-> None]
NoContext == [st |-> "free", marker |-> None]
InitClient ==
  /\ registry = [x \in Names |-> 0]
  /\ contexts = [c \in Ctxs |-> NoContext]
  /\ cl = [pc |-> "ready", name |-> None, k |-> 0]

\* ------------------------------------------------- launcher and manager
\* killChrome: SIGTERM unless a signal was already sent (process.killed);
\* kill() on a process that has exited delivers nothing and leaves killed false
\* (the timer set for it finds nothing to signal either); setTimeout(..., 3000)
\* is scheduled in the same run and the function returns
killChrome(P, inst) ==
  IF inst.proc # 0 /\ ~P[inst.proc].killed /\ P[inst.proc].st = "running"
  THEN [P EXCEPT ![inst.proc].killed = TRUE, ![inst.proc].timer = TRUE]
  ELSE P

\* stopWorkspace that clears the pointer whatever it names
stopWorkspaceClearsPointer(W, cur, P, n) ==
  IF n \in WS /\ W[n].proc # 0
  THEN [W |-> [W EXCEPT ![n] = NoInst], cur |-> None, P |-> killChrome(P, W[n])]
  ELSE [W |-> W, cur |-> cur, P |-> P]

\* stopWorkspace without the reset of the pointer
stopWorkspaceKeepsPointer(W, cur, P, n) ==
  IF n \in WS /\ W[n].proc # 0
  THEN [W |-> [W EXCEPT ![n] = NoInst], cur |-> cur, P |-> killChrome(P, W[n])]
  ELSE [W |-> W, cur |-> cur, P |-> P]

\* WorkspaceManager.stopWorkspace(name) on (workspaces, currentWorkspace, procs)
stopWorkspace(W, cur, P, n) ==
  IF n \in WS /\ W[n].proc # 0
  THEN [W |-> [W EXCEPT ![n] = NoInst],
        cur |-> IF cur = n THEN None ELSE cur,
        P |-> killChrome(P, W[n])]
  ELSE [W |-> W, cur |-> cur, P |-> P]

RECURSIVE killAll(_, _, _)
killAll(P, W, S) ==
  IF S = {} THEN P
  ELSE LET n == CHOOSE x \in S : TRUE IN killAll(killChrome(P, W[n]), W, S \ {n})

\* stopAll that forgets the instances without terminating them
stopAllNoKill(W, cur, P) == [W |-> [n \in WS |-> NoInst], cur |-> None, P |-> P]

\* WorkspaceManager.stopAll() on (workspaces, currentWorkspace, procs)
stopAll(W, cur, P) ==
  [W |-> [n \in WS |-> NoInst], cur |-> None, P |-> killAll(P, W, WS)]

\* Page.close() / the page's connection going away: the Page object closes; its
\* "close" event is pending when a listener is attached
\* (a Page or Browser object that is closed, a process that has exited, keeps
\* no field the program reads again)
ClosedPage == [conn |-> 0, st |-> "closed", name |-> None]
ClosedConn == [ep |-> 0, st |-> "closed"]
ExitedProc == [NoProc EXCEPT !.st = "exited"]

closePages(pg, T) ==
  [t \in Tids |-> IF t \in T /\ pg[t].st = "open"
                  THEN IF pg[t].name = None THEN ClosedPage
                       ELSE [conn |-> 0, st |-> "closing", name |-> pg[t].name]
                  ELSE pg[t]]

\* Browser.close() / disconnection of the Browser objects C
closeConns(cn, C) ==
  [c \in Cids |-> IF c \in C /\ cn[c].st = "open" THEN ClosedConn ELSE cn[c]]

pagesOf(pg, C) == {t \in Tids : pg[t].st = "open" /\ pg[t].conn \in C}

\* ensureVirtualDisplay(): null at once off darwin; on darwin what displayplacer
\* and betterdisplaycli yield
ensureVirtualDisplay == IF platform = "darwin" THEN {None, "display"} ELSE {None}

\* buildChromeArgs: the arguments that depend on the display
buildChromeArgs(headless, windowPosition) ==
  [headless |-> headless, windowPosition |-> windowPosition]

\* a launcher that goes headless only when asked to
chromeArgsAsRequested(headless, display) == buildChromeArgs(headless, display)

\* launchChrome: windowPosition = cachedVirtualDisplay?.origin,
\* useHeadless = !windowPosition && !options.headless
chromeArgs(headless, display) ==
  LET windowPosition == display
      useHeadless == windowPosition = None /\ ~headless
  IN buildChromeArgs(IF useHeadless THEN TRUE ELSE headless, windowPosition)

\* child_process.spawn: the next process of the table, for workspace n
spawn(P, n, args) ==
  [P EXCEPT ![Min(Free(P))] = [NoProc EXCEPT !.ws = n, !.st = "running",
                                              !.headless = args.headless,
                                              !.windowPosition = args.windowPosition]]

\* launchChrome({workspaceName: n, headless}) from its start to its first
\* await, for a handler of `kind`
launchChrome(kind, n, name, headless) ==
  /\ Room
  /\ IF cachedVirtualDisplay = "undefined"
     THEN /\ reqs' = suspend(reqs, [Req(kind, "display", n, name, 0, 0)
                                      EXCEPT !.headless = headless])
          /\ UNCHANGED procs
     ELSE /\ Free(procs) # {}
          /\ procs' = spawn(procs, n, chromeArgs(headless, cachedVirtualDisplay))
          /\ reqs' = suspend(reqs, [Req(kind, "cdp", n, name, Min(Free(procs)), 0)
                                      EXCEPT !.headless = headless])
  /\ last' = Step

\* the handler r once switchWorkspace(n) has returned inst: connect when no
\* connection is cached for n, then answer (switch) or go on to create the page
AfterSwitch(R, kind, n, name, inst, how) ==
  /\ last' = Resp("switch", n, how, inst.proc, inst.ep)
  /\ IF browserConnections[n] = 0 /\ inst.ep # 0
     THEN reqs' = suspend(R, Req(kind, "connect", n, name, inst.ep, 0))
     ELSE IF kind = "switch"
     THEN reqs' = R
     ELSE reqs' = suspend(R, Req(kind, "newPage", n, name, 0, browserConnections[n]))

\* a lookup that never finds the instance
instanceOfNone(n) == NoInst

\* this.workspaces.get(name), NoInst when undefined
instanceOf(n) == workspaces[n]

\* WorkspaceManager.switchWorkspace(n), n configured, called by a handler of `kind`
switchWorkspace(kind, n, name) ==
  IF instanceOf(n).proc # 0
  THEN /\ currentWorkspace' = n
       /\ (browserConnections[n] # 0 /\ kind = "switch") \/ Room
       /\ AfterSwitch(reqs, kind, n, name, instanceOf(n), "hit")
       /\ UNCHANGED <<workspaces, procs>>
  ELSE /\ launchChrome(kind, n, name, FALSE)
       /\ UNCHANGED <<workspaces, currentWorkspace>>

Serving == ~exited /\ listening

\* a switch that falls back to the default workspace for an unknown name
SwitchStartDefaults(n) ==
  /\ Serving
  /\ switchWorkspace("switch", IF n \in WS THEN n ELSE defaultWorkspace, None)
  /\ UNCHANGED cvars
  /\ UNCHANGED <<platform, cachedVirtualDisplay, browserConnections, conns, pageRegistry, pages,
                 cleaningUp, shut, shutlog, listening, handlers, exited, triggers>>

\* POST /workspace/switch
SwitchStart(n) ==
  /\ Serving
  /\ IF n \notin WS
     THEN /\ last' = Resp("switch", n, "unknown", 0, 0)
          /\ UNCHANGED <<workspaces, currentWorkspace, procs, reqs>>
     ELSE switchWorkspace("switch", n, None)
  /\ UNCHANGED cvars
  /\ UNCHANGED <<platform, cachedVirtualDisplay, browserConnections, conns, pageRegistry, pages,
                 cleaningUp, shut, shutlog, listening, handlers, exited, triggers>>

\* launchChrome resumed when ensureVirtualDisplay() has resolved: cache, spawn, poll
DisplayDone(r) ==
  /\ ~exited
  /\ r.pc = "display"
  /\ Free(procs) # {}
  /\ \E d \in ensureVirtualDisplay :
       /\ cachedVirtualDisplay' = d
       /\ procs' = spawn(procs, r.ws, chromeArgs(r.headless, d))
  /\ reqs' = suspend(resume(reqs, r), [r EXCEPT !.pc = "cdp", !.proc = Min(Free(procs))])
  /\ last' = Step
  /\ UNCHANGED cvars
  /\ UNCHANGED <<workspaces, currentWorkspace, platform, browserConnections, conns, pageRegistry,
                 pages, cleaningUp, shut, shutlog, listening, handlers, exited, triggers>>

\* the error answer of a handler of `kind`
Fail(kind, n, name) ==
  IF kind = "switch" THEN Resp("switch", n, "error", 0, 0) ELSE Resp("page", name, "error", 0, 0)

\* a launch that keeps one workspace only: it untracks the others
CdpOkExclusive(r) ==
  /\ ~exited
  /\ r.pc = "cdp"
  /\ \E q \in Pids :
       /\ procs[q].st = "running" /\ procs[q].ws = r.ws
       /\ LET inst == [proc |-> r.proc, ep |-> q] IN
          /\ workspaces' = [m \in WS |-> IF m = r.ws THEN inst ELSE NoInst]
          /\ currentWorkspace' = r.ws
          /\ AfterSwitch(resume(reqs, r), r.kind, r.ws, r.name, inst, "launched")
  /\ UNCHANGED cvars
  /\ UNCHANGED <<platform, cachedVirtualDisplay, procs, browserConnections, conns, pageRegistry,
                 pages, cleaningUp, shut, shutlog, listening, handlers, exited, triggers>>

\* launchChrome resumed when waitForCDP has returned an endpoint (that of a running
\* process on the workspace's port): switchWorkspace records the instance and
\* sets the pointer, the handler goes on
CdpOk(r) ==
  /\ ~exited
  /\ r.pc = "cdp" /\ r.kind # "launch"
  /\ \E q \in Pids :
       /\ procs[q].st = "running" /\ procs[q].ws = r.ws
       /\ LET inst == [proc |-> r.proc, ep |-> q] IN
          /\ workspaces' = [workspaces EXCEPT ![r.ws] = inst]
          /\ currentWorkspace' = r.ws
          /\ AfterSwitch(resume(reqs, r), r.kind, r.ws, r.name, inst, "launched")
  /\ UNCHANGED cvars
  /\ UNCHANGED <<platform, cachedVirtualDisplay, procs, browserConnections, conns, pageRegistry,
                 pages, cleaningUp, shut, shutlog, listening, handlers, exited, triggers>>

\* a failed launch that moves the pointer all the same
CdpFailSetsPointer(r) ==
  /\ ~exited
  /\ r.pc = "cdp"
  /\ reqs' = resume(reqs, r)
  /\ last' = Fail(r.kind, r.ws, r.name)
  /\ currentWorkspace' = r.ws
  /\ UNCHANGED cvars
  /\ UNCHANGED <<workspaces, platform, cachedVirtualDisplay, procs, browserConnections, conns,
                 pageRegistry, pages, cleaningUp, shut, shutlog, listening, handlers, exited,
                 triggers>>

\* launchChrome resumed when waitForCDP has thrown: switchWorkspace throws,
\* the handler answers 500
CdpFail(r) ==
  /\ ~exited
  /\ r.pc = "cdp" /\ r.kind # "launch"
  /\ reqs' = resume(reqs, r)
  /\ last' = Fail(r.kind, r.ws, r.name)
  /\ UNCHANGED cvars
  /\ UNCHANGED <<workspaces, currentWorkspace, platform, cachedVirtualDisplay, procs,
                 browserConnections, conns, pageRegistry, pages, cleaningUp, shut, shutlog,
                 listening, handlers, exited, triggers>>

\* launchChrome(options) called on its own (the function is exported)
LaunchStart(n, headless) ==
  /\ ~exited
  /\ launchChrome("launch", n, None, headless)
  /\ UNCHANGED cvars
  /\ UNCHANGED <<workspaces, currentWorkspace, platform, cachedVirtualDisplay, browserConnections,
                 conns, pageRegistry, pages, cleaningUp, shut, shutlog, listening, handlers,
                 exited, triggers>>

\* that call resumed when waitForCDP has returned an endpoint: the instance is
\* returned to the caller
LaunchDone(r) ==
  /\ ~exited
  /\ r.pc = "cdp" /\ r.kind = "launch"
  /\ \E q \in Pids :
       /\ procs[q].st = "running" /\ procs[q].ws = r.ws
       /\ last' = Resp("launch", r.ws, "launched", r.proc, q)
  /\ reqs' = resume(reqs, r)
  /\ UNCHANGED cvars
  /\ UNCHANGED <<workspaces, currentWorkspace, platform, cachedVirtualDisplay, procs,
                 browserConnections, conns, pageRegistry, pages, cleaningUp, shut, shutlog,
                 listening, handlers, exited, triggers>>

\* that call resumed when waitForCDP has thrown: the error goes to the caller
LaunchFail(r) ==
  /\ ~exited
  /\ r.pc = "cdp" /\ r.kind = "launch"
  /\ last' = Resp("launch", r.ws, "error", 0, 0)
  /\ reqs' = resume(reqs, r)
  /\ UNCHANGED cvars
  /\ UNCHANGED <<workspaces, currentWorkspace, platform, cachedVirtualDisplay, procs,
                 browserConnections, conns, pageRegistry, pages, cleaningUp, shut, shutlog,
                 listening, handlers, exited, triggers>>

\* the handler resumed when chromium.connectOverCDP(endpoint) has settled
ConnectDone(r) ==
  /\ ~exited
  /\ r.pc = "connect"
  /\ IF procs[r.proc].st = "running"
     THEN /\ Free(conns) # {}
          /\ LET c == Min(Free(conns)) IN
             /\ conns' = [conns EXCEPT ![c] = [ep |-> r.proc, st |-> "open"]]
             /\ browserConnections' = [browserConnections EXCEPT ![r.ws] = c]
             /\ IF r.kind = "switch"
                THEN /\ reqs' = resume(reqs, r)
                     /\ last' = Resp("connect", r.ws, "ok", c, r.proc)
                ELSE /\ reqs' = suspend(resume(reqs, r), Req(r.kind, "newPage", r.ws, r.name, 0, c))
                     /\ last' = Step
     ELSE /\ reqs' = resume(reqs, r)
          /\ last' = Fail(r.kind, r.ws, r.name)
          /\ UNCHANGED <<conns, browserConnections>>
  /\ UNCHANGED cvars
  /\ UNCHANGED <<workspaces, currentWorkspace, platform, cachedVirtualDisplay, procs, pageRegistry,
                 pages, cleaningUp, shut, shutlog, listening, handlers, exited, triggers>>

\* a stop that finds no page of the workspace
ownedByNone(n) == {}

\* the names whose entry POST /workspace/stop closes and deletes
ownedBy(n) == {x \in Names : pageRegistry[x].tid # 0 /\ pageRegistry[x].workspace = n}

\* POST /workspace/stop
WorkspaceStop(n) ==
  /\ Serving
  /\ LET owned == ownedBy(n)
         c == IF n \in WS THEN browserConnections[n] ELSE 0
         pg1 == closePages(pages, {pageRegistry[x].tid : x \in owned})
         m == stopWorkspace(workspaces, currentWorkspace, procs, n)
     IN /\ pageRegistry' = [x \in Names |-> IF x \in owned THEN NoEntry ELSE pageRegistry[x]]
        /\ pages' = IF c # 0 THEN closePages(pg1, pagesOf(pg1, {c})) ELSE pg1
        /\ conns' = IF c # 0 THEN closeConns(conns, {c}) ELSE conns
        /\ browserConnections' = IF c # 0 THEN [browserConnections EXCEPT ![n] = 0]
                                 ELSE browserConnections
        /\ workspaces' = m.W
        /\ currentWorkspace' = m.cur
        /\ procs' = m.P
  /\ last' = Resp("stop", n, "ok", 0, 0)
  /\ UNCHANGED cvars
  /\ UNCHANGED <<platform, cachedVirtualDisplay, reqs, cleaningUp, shut, shutlog, listening,
                 handlers, exited, triggers>>

\* ---------------------------------------------------------------- pages
\* a lookup that never finds the entry
entryOfNone(name) == NoEntry

\* pageRegistry.get(name), NoEntry when undefined
entryOf(name) == pageRegistry[name]

\* POST /pages
PageStart(name) ==
  /\ Serving
  /\ IF entryOf(name).tid # 0
     THEN \* the entry exists: answer with its target id and the current endpoint
          /\ last' = Resp("page", name, "hit", entryOf(name).tid, getCurrentInstance.ep)
          /\ UNCHANGED <<workspaces, currentWorkspace, procs, reqs>>
     ELSE IF currentWorkspace = None
     THEN \* getCurrentBrowser: auto-switch to the default workspace
          switchWorkspace("page", defaultWorkspace, name)
     ELSE IF browserConnections[currentWorkspace] = 0
     THEN \* getCurrentBrowser throws: No browser connection
          /\ last' = Resp("page", name, "error", 0, 0)
          /\ UNCHANGED <<workspaces, currentWorkspace, procs, reqs>>
     ELSE /\ Room
          /\ reqs' = suspend(reqs, Req("page", "newPage", currentWorkspace, name, 0,
                                       browserConnections[currentWorkspace]))
          /\ last' = Step
          /\ UNCHANGED <<workspaces, currentWorkspace, procs>>
  /\ UNCHANGED cvars
  /\ UNCHANGED <<platform, cachedVirtualDisplay, browserConnections, conns, pageRegistry, pages,
                 cleaningUp, shut, shutlog, listening, handlers, exited, triggers>>

\* the handler resumed when context.newPage() has settled
NewPageDone(r) ==
  /\ ~exited
  /\ r.pc = "newPage"
  /\ IF conns[r.id].st = "open"
     THEN /\ Free(pages) # {}
          /\ LET t == Min(Free(pages)) IN
             /\ pages' = [pages EXCEPT ![t] = [conn |-> r.id, st |-> "open", name |-> None]]
             /\ reqs' = suspend(resume(reqs, r), [r EXCEPT !.pc = "targetInfo", !.id = t])
          /\ last' = Step
     ELSE /\ reqs' = resume(reqs, r)
          /\ last' = Resp("page", r.name, "error", 0, 0)
          /\ UNCHANGED pages
  /\ UNCHANGED cvars
  /\ UNCHANGED <<workspaces, currentWorkspace, platform, cachedVirtualDisplay, procs,
                 browserConnections, conns, pageRegistry, cleaningUp, shut, shutlog, listening,
                 handlers, exited, triggers>>

\* the entry POST /pages records for the page it created
newEntry(t) == [tid |-> t, workspace |-> currentWorkspace]

\* the handler resumed when the Target.getTargetInfo round trips have settled:
\* record the entry, attach the close listener, answer
TargetInfoDone(r) ==
  /\ ~exited
  /\ r.pc = "targetInfo"
  /\ IF pages[r.id].st = "open"
     THEN /\ pageRegistry' = [pageRegistry EXCEPT ![r.name] = newEntry(r.id)]
          /\ pages' = [pages EXCEPT ![r.id].name = r.name]
          /\ last' = Resp("page", r.name, "created", r.id, getCurrentInstance.ep)
     ELSE /\ last' = Resp("page", r.name, "error", 0, 0)
          /\ UNCHANGED <<pageRegistry, pages>>
  /\ reqs' = resume(reqs, r)
  /\ UNCHANGED cvars
  /\ UNCHANGED <<workspaces, currentWorkspace, platform, cachedVirtualDisplay, procs,
                 browserConnections, conns, cleaningUp, shut, shutlog, listening, handlers,
                 exited, triggers>>

\* a DELETE that answers success for a name the registry does not hold
DeleteStartAnswersOk(name) ==
  /\ Serving
  /\ IF pageRegistry[name].tid # 0
     THEN /\ Room
          /\ pages' = closePages(pages, {pageRegistry[name].tid})
          /\ reqs' = suspend(reqs, Req("delete", "close", None, name, 0, pageRegistry[name].tid))
          /\ last' = Step
     ELSE /\ last' = Resp("delete", name, "ok", 0, 0)
          /\ UNCHANGED <<pages, reqs>>
  /\ UNCHANGED cvars
  /\ UNCHANGED <<workspaces, currentWorkspace, platform, cachedVirtualDisplay, procs,
                 browserConnections, conns, pageRegistry, cleaningUp, shut, shutlog, listening,
                 handlers, exited, triggers>>

\* DELETE /pages/:name
DeleteStart(name) ==
  /\ Serving
  /\ IF pageRegistry[name].tid # 0
     THEN /\ Room
          /\ pages' = closePages(pages, {pageRegistry[name].tid})
          /\ reqs' = suspend(reqs, Req("delete", "close", None, name, 0, pageRegistry[name].tid))
          /\ last' = Step
     ELSE /\ last' = Resp("delete", name, "notfound", 0, 0)
          /\ UNCHANGED <<pages, reqs>>
  /\ UNCHANGED cvars
  /\ UNCHANGED <<workspaces, currentWorkspace, platform, cachedVirtualDisplay, procs,
                 browserConnections, conns, pageRegistry, cleaningUp, shut, shutlog, listening,
                 handlers, exited, triggers>>

\* a DELETE that leaves the entry of the closed page in the registry
DeleteDoneKeepsEntry(r) ==
  /\ ~exited
  /\ r.pc = "close"
  /\ pageRegistry' = pageRegistry
  /\ reqs' = resume(reqs, r)
  /\ last' = Resp("delete", r.name, "ok", r.id, 0)
  /\ UNCHANGED cvars
  /\ UNCHANGED <<workspaces, currentWorkspace, platform, cachedVirtualDisplay, procs,
                 browserConnections, conns, pages, cleaningUp, shut, shutlog, listening, handlers,
                 exited, triggers>>

\* DELETE resumed when page.close() has resolved
DeleteDone(r) ==
  /\ ~exited
  /\ r.pc = "close"
  /\ pageRegistry' = [pageRegistry EXCEPT ![r.name] = NoEntry]
  /\ reqs' = resume(reqs, r)
  /\ last' = Resp("delete", r.name, "ok", r.id, 0)
  /\ UNCHANGED cvars
  /\ UNCHANGED <<workspaces, currentWorkspace, platform, cachedVirtualDisplay, procs,
                 browserConnections, conns, pages, cleaningUp, shut, shutlog, listening, handlers,
                 exited, triggers>>

\* a close listener that leaves the registry as it is
PageCloseEventKeepsEntry(t) ==
  /\ ~exited
  /\ pages[t].st = "closing"
  /\ pages' = [pages EXCEPT ![t] = ClosedPage]
  /\ pageRegistry' = pageRegistry
  /\ last' = Resp("closeEvent", pages[t].name, "ok", t, 0)
  /\ UNCHANGED cvars
  /\ UNCHANGED <<workspaces, currentWorkspace, platform, cachedVirtualDisplay, procs,
                 browserConnections, conns, reqs, cleaningUp, shut, shutlog, listening, handlers,
                 exited, triggers>>

\* page.on("close"): the listener of page t runs
PageCloseEvent(t) ==
  /\ ~exited
  /\ pages[t].st = "closing"
  /\ pages' = [pages EXCEPT ![t] = ClosedPage]
  /\ pageRegistry' = [pageRegistry EXCEPT ![pages[t].name] = NoEntry]
  /\ last' = Resp("closeEvent", pages[t].name, "ok", t, 0)
  /\ UNCHANGED cvars
  /\ UNCHANGED <<workspaces, currentWorkspace, platform, cachedVirtualDisplay, procs,
                 browserConnections, conns, reqs, cleaningUp, shut, shutlog, listening, handlers,
                 exited, triggers>>

\* ---------------------------------------------------------- environment
\* the page is closed on the browser's side (tab closed, renderer gone)
PageCrash(t) ==
  /\ ~exited
  /\ pages[t].st = "open"
  /\ pages' = closePages(pages, {t})
  /\ last' = Step
  /\ UNCHANGED cvars
  /\ UNCHANGED <<workspaces, currentWorkspace, platform, cachedVirtualDisplay, procs,
                 browserConnections, conns, pageRegistry, reqs, cleaningUp, shut, shutlog,
                 listening, handlers, exited, triggers>>

\* a browser process exits (after a signal, or unexpectedly); the exit observer
\* of launchChrome only logs; the connections to it drop
ProcExit(p) ==
  /\ ~exited
  /\ procs[p].st = "running"
  /\ procs' = [procs EXCEPT ![p] = ExitedProc]
  /\ LET C == {c \in Cids : conns[c].st = "open" /\ conns[c].ep = p} IN
     /\ conns' = closeConns(conns, C)
     /\ pages' = closePages(pages, pagesOf(pages, C))
  /\ last' = Resp("exit", procs[p].ws, IF procs[p].killed THEN "killed" ELSE "unexpected", p, 0)
  /\ UNCHANGED cvars
  /\ UNCHANGED <<workspaces, currentWorkspace, platform, cachedVirtualDisplay, browserConnections,
                 pageRegistry, reqs, cleaningUp, shut, shutlog, listening, handlers, exited,
                 triggers>>

\* the grace timer of killChrome fires, 3 s after the SIGTERM:
\* if (!instance.process.killed) instance.process.kill("SIGKILL")
KillTimer(p) ==
  /\ ~exited
  /\ procs[p].timer
  /\ procs' = [procs EXCEPT ![p].timer = FALSE,
                            ![p].forced = IF ~procs[p].killed THEN TRUE ELSE @]
  /\ last' = Resp("timer", procs[p].ws, IF ~procs[p].killed THEN "SIGKILL" ELSE "none", p, 0)
  /\ UNCHANGED cvars
  /\ UNCHANGED <<workspaces, currentWorkspace, platform, cachedVirtualDisplay, browserConnections,
                 conns, pageRegistry, pages, reqs, cleaningUp, shut, shutlog, listening, handlers,
                 exited, triggers>>

\* -------------------------------------------------------------- shutdown
ShutState ==
  [reg |-> pageRegistry, pg |-> pages, cn |-> conns, bc |-> browserConnections,
   W |-> workspaces, cur |-> currentWorkspace, P |-> procs, sh |-> shut, log |-> shutlog,
   lis |-> listening, ex |-> exited]

\* cleanup from workspaceManager.stopAll() to its end; signalHandler then exits
cleanupEnd(S) ==
  LET m == stopAll(S.W, S.cur, S.P) IN
  [S EXCEPT !.W = m.W, !.cur = m.cur, !.P = m.P, !.lis = FALSE,
            !.log = S.log \o <<"procs", "listen">>,
            !.sh = [NoShut EXCEPT !.pc = "done", !.by = S.sh.by],
            !.ex = (S.sh.by = "signal")]

\* cleanup in its loop over browserConnections.values(): to the next await, or on
cleanupConns(S) ==
  LET todo == {c \in Cids : (\E n \in WS : S.bc[n] = c) /\ c \notin S.sh.seenC} IN
  IF todo = {}
  THEN {cleanupEnd([S EXCEPT !.bc = [n \in WS |-> 0], !.log = Append(S.log, "conns")])}
  ELSE {[S EXCEPT !.cn = closeConns(S.cn, {c}),
                  !.pg = closePages(S.pg, pagesOf(S.pg, {c})),
                  !.sh = [S.sh EXCEPT !.pc = "conns", !.seenC = @ \cup {c}]] : c \in todo}

\* cleanup in its loop over pageRegistry.values(): to the next await, or on
cleanupPages(S) ==
  LET todo == {t \in Tids : (\E x \in Names : S.reg[x].tid = t) /\ t \notin S.sh.seenT} IN
  IF todo = {}
  THEN cleanupConns([S EXCEPT !.reg = [x \in Names |-> NoEntry], !.log = Append(S.log, "pages")])
  ELSE {[S EXCEPT !.pg = closePages(S.pg, {t}),
                  !.sh = [S.sh EXCEPT !.pc = "pages", !.seenT = @ \cup {t}]] : t \in todo}

\* a cleanup that goes to the pages first and destroys the sockets last
cleanupSocketsLast(S, kind) ==
  {[o EXCEPT !.log = IF o.sh.pc = "done" THEN Append(o.log, "sockets") ELSE o.log] :
     o \in cleanupPages([S EXCEPT !.sh = [NoShut EXCEPT !.by = kind]])}

\* cleanup from its first statement
cleanup(S, kind) ==
  cleanupPages([S EXCEPT !.sh = [NoShut EXCEPT !.by = kind], !.log = Append(S.log, "sockets")])

Assign(o) ==
  /\ pageRegistry' = o.reg
  /\ pages' = o.pg
  /\ conns' = o.cn
  /\ browserConnections' = o.bc
  /\ workspaces' = o.W
  /\ currentWorkspace' = o.cur
  /\ procs' = o.P
  /\ shut' = o.sh
  /\ shutlog' = o.log
  /\ listening' = o.lis
  /\ exited' = o.ex

\* a guard that never holds
alreadyCleaningNever == FALSE

\* if (cleaningUp) return
alreadyCleaning == cleaningUp

\* a termination trigger: SIGINT, SIGTERM or SIGHUP ("signal": signalHandler),
\* or the stop() of the server object ("stop")
Trigger(kind) ==
  /\ ~exited
  /\ triggers < MaxTriggers
  /\ triggers' = triggers + 1
  /\ handlers' = IF kind = "stop" THEN FALSE ELSE handlers
  /\ last' = Resp("trigger", kind, IF cleaningUp THEN "again" ELSE "first", 0, 0)
  /\ IF kind = "signal" /\ ~handlers
     THEN \* stop() removed the handlers: the signal ends the process
          /\ exited' = TRUE
          /\ UNCHANGED <<workspaces, currentWorkspace, procs, browserConnections, conns,
                         pageRegistry, pages, cleaningUp, shut, shutlog, listening>>
     ELSE IF alreadyCleaning
     THEN \* cleanup returns at once; signalHandler goes on to process.exit(0)
          /\ exited' = (kind = "signal")
          /\ UNCHANGED <<workspaces, currentWorkspace, procs, browserConnections, conns,
                         pageRegistry, pages, cleaningUp, shut, shutlog, listening>>
     ELSE /\ cleaningUp' = TRUE
          /\ \E o \in cleanup(ShutState, kind) : Assign(o)
  /\ UNCHANGED cvars
  /\ UNCHANGED <<platform, cachedVirtualDisplay, reqs>>

\* cleanup resumed when the awaited page.close() or browser.close() has settled
CleanupResume ==
  /\ ~exited
  /\ shut.pc \in {"pages", "conns"}
  /\ \E o \in (IF shut.pc = "pages" THEN cleanupPages(ShutState) ELSE cleanupConns(ShutState)) :
       Assign(o)
  /\ last' = Step
  /\ UNCHANGED cvars
  /\ UNCHANGED <<platform, cachedVirtualDisplay, reqs, cleaningUp, handlers, triggers>>


\* ------------------------------------------------------------ waitForCDP
\* a loop that polls once more than the limit
retryOnceMore(i) == i <= maxRetries

\* the loop condition of waitForCDP
retry(i) == i < maxRetries

\* a catch block that keeps the first error
caughtFirst(lastError, err) == IF lastError = None THEN err ELSE lastError

\* the catch block: lastError after the poll failed with err
caught(lastError, err) == err

\* one poll: fetch /json/version resolves ok (the endpoint is returned), or fails
\* with a connection error or a non-success status (caught; then the delay)
Fetch(o) ==
  /\ wait.pc = "fetch"
  /\ IF o = "ok"
     THEN wait' = [wait EXCEPT !.pc = "returned", !.polls = @ + 1, !.out = "endpoint"]
     ELSE wait' = [wait EXCEPT !.pc = "sleep", !.polls = @ + 1, !.seen = o,
                               !.lastError = caught(wait.lastError, o)]
  /\ last' = Step
  /\ UNCHANGED <<svars, registry, contexts, cl>>

\* the delay has elapsed: i++, the next poll, or the throw that ends the loop
Sleep ==
  /\ wait.pc = "sleep"
  /\ IF retry(wait.i + 1)
     THEN wait' = [wait EXCEPT !.pc = "fetch", !.i = @ + 1]
     ELSE wait' = [wait EXCEPT !.pc = "thrown", !.i = @ + 1, !.out = wait.lastError]
  /\ last' = Step
  /\ UNCHANGED <<svars, registry, contexts, cl>>

\* ---------------------------------------------------- named-page client
\* the contexts still to visit in connect()'s loop after context k
NextOpen(k) == {c \in Ctxs : c > k /\ contexts[c].st = "open"}
scanFrom(k) ==
  IF NextOpen(k) = {} THEN [pc |-> "ready", name |-> None, k |-> 0]
  ELSE [pc |-> "scan", name |-> None, k |-> Min(NextOpen(k))]

\* the client is started anew on the running browser: connect() builds an empty
\* registry and starts its loop over browser.contexts()
Reconnect ==
  /\ cl.pc = "ready"
  /\ registry' = [x \in Names |-> 0]
  /\ cl' = scanFrom(0)
  /\ last' = Resp("connect()", None, None, 0, 0)
  /\ UNCHANGED <<svars, wait, contexts>>

\* connect(): page.evaluate of the marker on the page of context cl.k has settled;
\* ok = it resolved, ~ok = it threw (the page is navigating)
ScanEval(ok) ==
  /\ cl.pc = "scan"
  /\ LET c == cl.k
         pageName == contexts[c].marker
     IN /\ registry' = IF ok /\ contexts[c].st = "open" /\ pageName # None
                       THEN [registry EXCEPT ![pageName] = c]
                       ELSE registry
        /\ cl' = scanFrom(c)
  /\ last' = Step
  /\ UNCHANGED <<svars, wait, contexts>>

\* findPage(name): the context registered for name whose page's marker reads
\* name, 0 (null) when none; ok = the evaluation resolved
findPage(name, ok) ==
  IF registry[name] # 0 /\ contexts[registry[name]].st = "open" /\ ok
     /\ contexts[registry[name]].marker = name
  THEN registry[name]
  ELSE 0

\* client.page(name) up to the return of the existing page, or to the awaits
\* that create a context and a page
PageCall(name, ok) ==
  /\ cl.pc = "ready"
  /\ IF findPage(name, ok) # 0
     THEN /\ last' = Resp("page()", name, "existing", findPage(name, ok), 0)
          /\ UNCHANGED cl
     ELSE /\ cl' = [pc |-> "create", name |-> name, k |-> registry[name]]
          /\ last' = Step
  /\ UNCHANGED <<svars, wait, registry, contexts>>

\* client.page(name) resumed when newContext, addInitScript and newPage have
\* settled: registry.set(name, context), return the page
PageCreated ==
  /\ cl.pc = "create"
  /\ Free(contexts) # {}
  /\ LET c == Min(Free(contexts)) IN
     /\ contexts' = [contexts EXCEPT ![c] = [st |-> "open", marker |-> cl.name]]
     /\ registry' = [registry EXCEPT ![cl.name] = c]
     /\ last' = Resp("page()", cl.name, IF cl.k = 0 THEN "created" ELSE "replaced", c, 0)
  /\ cl' = [pc |-> "ready", name |-> None, k |-> 0]
  /\ UNCHANGED <<svars, wait>>

\* client.close(name) up to the await of context.close()
CloseCall(name) ==
  /\ cl.pc = "ready"
  /\ IF registry[name] # 0
     THEN /\ contexts' = [contexts EXCEPT ![registry[name]] =
                            IF @.st = "open" THEN [st |-> "closed", marker |-> None] ELSE @]
          /\ cl' = [pc |-> "close", name |-> name, k |-> 0]
          /\ last' = Step
     ELSE /\ last' = Resp("close()", name, "absent", 0, 0)
          /\ UNCHANGED <<contexts, cl>>
  /\ UNCHANGED <<svars, wait, registry>>

\* client.close(name) resumed: registry.delete(name)
CloseDone ==
  /\ cl.pc = "close"
  /\ registry' = [registry EXCEPT ![cl.name] = 0]
  /\ cl' = [pc |-> "ready", name |-> None, k |-> 0]
  /\ last' = Resp("close()", cl.name, "ok", 0, 0)
  /\ UNCHANGED <<svars, wait, contexts>>

\* ------------------------------------------------------------------ Next
Init == InitServer /\ platform = "linux" /\ wait = NoWait /\ InitClient

\* the whole program
Next ==
  \/ \E n \in WS \cup {Unknown} : SwitchStart(n)
  \/ \E r \in Suspended : DisplayDone(r)
  \/ \E r \in Suspended : CdpOk(r)
  \/ \E r \in Suspended : CdpFail(r)
  \/ \E r \in Suspended : ConnectDone(r)
  \/ \E n \in WS \cup {Unknown} : WorkspaceStop(n)
  \/ \E x \in Names : PageStart(x)
  \/ \E r \in Suspended : NewPageDone(r)
  \/ \E r \in Suspended : TargetInfoDone(r)
  \/ \E x \in Names : DeleteStart(x)
  \/ \E r \in Suspended : DeleteDone(r)
  \/ \E t \in Tids : PageCloseEvent(t)
  \/ \E t \in Tids : PageCrash(t)
  \/ \E p \in Pids : ProcExit(p)
  \/ \E k \in {"signal", "stop"} : Trigger(k)
  \/ CleanupResume
  \/ \E o \in Failures \cup {"ok"} : Fetch(o)
  \/ Sleep
  \/ Reconnect
  \/ \E ok \in BOOLEAN : ScanEval(ok)
  \/ \E x \in Names, ok \in BOOLEAN : PageCall(x, ok)
  \/ PageCreated
  \/ \E x \in Names : CloseCall(x)
  \/ CloseDone
  \/ \E n \in WS, h \in BOOLEAN : LaunchStart(n, h)
  \/ \E r \in Suspended : LaunchDone(r)
  \/ \E r \in Suspended : LaunchFail(r)
  \/ \E p \in Pids : KillTimer(p)
Spec == Init /\ [][Next]_vars

\* the workspace manager under the workspace routes, process exits and shutdown
NextWM ==
  \/ \E n \in WS \cup {Unknown} : SwitchStart(n)
  \/ \E r \in Suspended : DisplayDone(r)
  \/ \E r \in Suspended : CdpOk(r)
  \/ \E r \in Suspended : CdpFail(r)
  \/ \E r \in Suspended : ConnectDone(r)
  \/ \E n \in WS \cup {Unknown} : WorkspaceStop(n)
  \/ \E p \in Pids : ProcExit(p)
  \/ \E k \in {"signal", "stop"} : Trigger(k)
  \/ CleanupResume
SpecWM == Init /\ [][NextWM]_vars

\* the page routes for one page name, under workspace switches and stops
NextPage ==
  \/ \E n \in WS : SwitchStart(n)
  \/ \E r \in Suspended : DisplayDone(r)
  \/ \E r \in Suspended : CdpOk(r)
  \/ \E r \in Suspended : ConnectDone(r)
  \/ \E n \in WS : WorkspaceStop(n)
  \/ PageStart("home")
  \/ \E r \in Suspended : NewPageDone(r)
  \/ \E r \in Suspended : TargetInfoDone(r)
  \/ DeleteStart("home")
  \/ \E r \in Suspended : DeleteDone(r)
  \/ \E t \in Tids : PageCloseEvent(t)
  \/ \E t \in Tids : PageCrash(t)
SpecPage == Init /\ [][NextPage]_vars

\* pages of two names in two workspaces, under workspace stops
NextStop ==
  \/ \E n \in WS : SwitchStart(n)
  \/ \E r \in Suspended : DisplayDone(r)
  \/ \E r \in Suspended : CdpOk(r)
  \/ \E r \in Suspended : ConnectDone(r)
  \/ \E n \in WS : WorkspaceStop(n)
  \/ \E x \in Names : PageStart(x)
  \/ \E r \in Suspended : NewPageDone(r)
  \/ \E r \in Suspended : TargetInfoDone(r)
  \/ \E t \in Tids : PageCloseEvent(t)
SpecStop == Init /\ [][NextStop]_vars

\* shutdown of a server holding pages of the default workspace
NextSh ==
  \/ \E r \in Suspended : DisplayDone(r)
  \/ \E r \in Suspended : CdpOk(r)
  \/ \E r \in Suspended : ConnectDone(r)
  \/ \E x \in Names : PageStart(x)
  \/ \E r \in Suspended : NewPageDone(r)
  \/ \E r \in Suspended : TargetInfoDone(r)
  \/ \E t \in Tids : PageCloseEvent(t)
  \/ \E k \in {"signal", "stop"} : Trigger(k)
  \/ CleanupResume
SpecSh == Init /\ [][NextSh]_vars

\* one call of waitForCDP, from its first poll
InitCDP ==
  /\ InitServer /\ platform = "linux" /\ InitClient
  /\ wait = [NoWait EXCEPT !.pc = "fetch"]
NextCDP ==
  \/ \E o \in Failures \cup {"ok"} : Fetch(o)
  \/ Sleep
SpecCDP == InitCDP /\ [][NextCDP]_vars
\* every awaited fetch and every delay settles
SpecCDPLive == SpecCDP /\ WF_vars(NextCDP)

\* the workspace routes on a macOS host, with the grace timers
InitDarwin == InitServer /\ platform = "darwin" /\ wait = NoWait /\ InitClient
NextDisp ==
  \/ \E n \in WS : SwitchStart(n)
  \/ \E r \in Suspended : DisplayDone(r)
  \/ \E r \in Suspended : CdpOk(r)
  \/ \E r \in Suspended : CdpFail(r)
  \/ \E r \in Suspended : ConnectDone(r)
  \/ \E n \in WS : WorkspaceStop(n)
  \/ \E p \in Pids : ProcExit(p)
  \/ \E p \in Pids : KillTimer(p)
SpecDisp == InitDarwin /\ [][NextDisp]_vars

\* launchChrome called on its own, on either platform
InitLaunch ==
  /\ InitServer /\ platform \in {"darwin", "linux"} /\ wait = NoWait /\ InitClient
NextLaunch ==
  \/ \E n \in WS, h \in BOOLEAN : LaunchStart(n, h)
  \/ \E r \in Suspended : DisplayDone(r)
  \/ \E r \in Suspended : LaunchDone(r)
  \/ \E r \in Suspended : LaunchFail(r)
  \/ \E p \in Pids : ProcExit(p)
SpecLaunch == InitLaunch /\ [][NextLaunch]_vars

\* the named-page client on a browser that outlives it
NextClient ==
  \/ Reconnect
  \/ \E ok \in BOOLEAN : ScanEval(ok)
  \/ \E x \in Names, ok \in BOOLEAN : PageCall(x, ok)
  \/ PageCreated
  \/ \E x \in Names : CloseCall(x)
  \/ CloseDone
SpecClient == Init /\ [][NextClient]_vars

\* ---------------------------------------------------------------- claims
\* the processes spawned for n, not terminated, that a launch in progress or the
\* tracked instance of n holds
Held(n) ==
  {p \in Pids : /\ procs[p].st = "running" /\ procs[p].ws = n
                /\ \/ workspaces[n].proc = p
                   \/ \E r \in Suspended : r.pc = "cdp" /\ r.proc = p}

\* C1 (SpecWM): for every workspace name, at most one browser process spawned
\* for it by a first-time switchWorkspace is running at any time, however the
\* first-time calls interleave
C1_SingleFlight == \A n \in WS : Cardinality(Held(n)) <= 1

\* C2 as stated (SpecWM): the pointer is null or names a workspace with a tracked
\* instance whose process is alive
C2_PointerAlive ==
  currentWorkspace # None =>
    /\ tracked(currentWorkspace)
    /\ procs[workspaces[currentWorkspace].proc].st = "running"

\* C2 (SpecWM): the pointer is null or names a workspace with a tracked instance
\* (the process of that instance may have exited: the exit is only logged)
C2_PointerTracked == currentWorkspace # None => tracked(currentWorkspace)

\* the pointer names a tracked instance whose process has exited
C2_Witness ==
  /\ currentWorkspace # None
  /\ tracked(currentWorkspace)
  /\ procs[workspaces[currentWorkspace].proc].st = "exited"

\* C3 (SpecWM): a switchWorkspace(n) that finds n tracked returns the tracked
\* instance and endpoint (those the call before it returned, when that call was
\* a switchWorkspace(n) too), spawns no process, leaves the tracking as it is and
\* sets the pointer to n; a launch returns the instance it tracks
C3_SwitchIdempotent ==
  [][/\ \A n \in WS :
          (tracked(n) /\ SwitchStart(n)) =>
            /\ last'.op = "switch" /\ last'.res = "hit"
            /\ last'.val = workspaces[n].proc /\ last'.ep = workspaces[n].ep
            /\ (last.op = "switch" /\ last.arg = n /\ last.res \in {"hit", "launched"}
                  => last'.val = last.val /\ last'.ep = last.ep)
            /\ procs' = procs
            /\ workspaces' = workspaces
            /\ currentWorkspace' = n
     /\ (last'.op = "switch" /\ last'.res = "launched") =>
          /\ workspaces'[last'.arg] = [proc |-> last'.val, ep |-> last'.ep]
          /\ currentWorkspace' = last'.arg
    ]_vars

\* a second switchWorkspace(n) has answered from the tracking, n being current
\* already
C3_Witness ==
  /\ last.op = "switch" /\ last.res = "hit"
  /\ tracked(last.arg)
  /\ Cardinality({p \in Pids : procs[p].st # "free"}) = 1

\* C4 (SpecPage): a getOrCreate(p) that finds p registered returns the target id
\* of the entry (the id the request before it returned, when that was a
\* getOrCreate(p) too), whichever workspace is current, creates no page and
\* launches no process; a creating request returns the id it registers
C4_PageIdentity ==
  [][/\ \A x \in Names :
          (pageRegistry[x].tid # 0 /\ PageStart(x)) =>
            /\ last'.op = "page" /\ last'.res = "hit"
            /\ last'.val = pageRegistry[x].tid
            /\ (last.op = "page" /\ last.arg = x /\ last.res \in {"hit", "created"}
                  => last'.val = last.val)
            /\ pages' = pages
            /\ procs' = procs
            /\ reqs' = reqs
            /\ pageRegistry' = pageRegistry
     /\ (last'.op = "page" /\ last'.res = "created") =>
          pageRegistry'[last'.arg].tid = last'.val
    ]_vars

\* a second getOrCreate(p) has answered from the registry while a workspace
\* other than the owner of p is current
C4_Witness ==
  /\ last.op = "page" /\ last.res = "hit"
  /\ pageRegistry[last.arg].tid = last.val
  /\ currentWorkspace # None
  /\ pageRegistry[last.arg].workspace # currentWorkspace

\* C5 (SpecStop): when /workspace/stop of n completes, no registry entry is owned
\* by n, and the entries owned by other workspaces are what they were
C5_StopCascades ==
  [][\A n \in WS :
        WorkspaceStop(n) =>
          \A x \in Names :
            /\ pageRegistry'[x].workspace # n
            /\ (pageRegistry[x].workspace # n => pageRegistry'[x] = pageRegistry[x])
    ]_vars

\* a stop has removed the entry of a page it closed and left an entry of
\* another workspace in place
C5_Witness ==
  /\ last.op = "stop"
  /\ \E t \in Tids : pages[t].st = "closing" /\ pageRegistry[pages[t].name].tid = 0
  /\ \E x \in Names : /\ pageRegistry[x].tid # 0
                      /\ pageRegistry[x].workspace # last.arg
                      /\ pages[pageRegistry[x].tid].st = "open"

\* the shutdown steps of the log are pairwise different
NoStepTwice(log) == \A i, j \in 1..Len(log) : log[i] = log[j] => i = j

\* what the shutdown sequence works on
shutdownState ==
  <<shutlog, shut, pageRegistry, pages, browserConnections, conns, workspaces,
    currentWorkspace, procs, listening>>

\* C6 (SpecSh): the shutdown body is entered by the first trigger only: no step
\* of it is ever performed twice, and a trigger that arrives when the one-shot
\* flag is set performs no step
C6_ShutdownOnce ==
  [][/\ NoStepTwice(shutlog')
     /\ (shutlog' # <<>> => cleaningUp')
     /\ (cleaningUp /\ triggers' = triggers + 1) => shutdownState' = shutdownState
     /\ (~cleaningUp /\ handlers /\ triggers' = triggers + 1) =>
          (cleaningUp' /\ shutlog' # <<>> /\ shutlog'[1] = "sockets")
    ]_vars

\* a second trigger has arrived while the shutdown was suspended on a close
C6_Witness ==
  /\ last.op = "trigger" /\ last.res = "again"
  /\ shut.pc \in {"pages", "conns"}
  /\ shutlog # <<>>

IsPrefix(a, b) == Len(a) <= Len(b) /\ a = SubSeq(b, 1, Len(a))

\* C7 as stated (SpecSh): pages, connections, processes, stop accepting, sockets
C7_ClaimedOrder ==
  IsPrefix(shutlog, <<"pages", "conns", "procs", "listen", "sockets">>)

\* C7 (SpecSh): the shutdown steps are performed in the order: destroy the open
\* client sockets, close the tracked pages, close the pooled connections,
\* terminate all browser processes, stop accepting connections
C7_CodeOrder ==
  IsPrefix(shutlog, <<"sockets", "pages", "conns", "procs", "listen">>)

\* a shutdown that closed a page and a connection has run to its end
C7_Witness ==
  /\ shutlog = <<"sockets", "pages", "conns", "procs", "listen">>
  /\ \E c \in Cids : conns[c].st = "closed"
  /\ \E t \in Tids : pages[t].st \in {"closing", "closed"}

\* C8 (SpecWM): a launch whose endpoint never becomes ready fails the
\* switchWorkspace and changes neither the tracking nor the pointer; a workspace
\* gets tracked only by a launch that succeeded; a switchWorkspace(n) that finds
\* n untracked starts a launch of its own (a process it spawns)
C8_LaunchFailure ==
  [][/\ \A r \in Suspended :
          CdpFail(r) =>
            /\ last'.res = "error"
            /\ workspaces' = workspaces
            /\ getWorkspaceStates' = getWorkspaceStates
            /\ currentWorkspace' = currentWorkspace
     /\ \A n \in WS :
          (~tracked(n) /\ tracked(n)') => (last'.res = "launched" /\ last'.arg = n)
     /\ \A n \in WS :
          (~tracked(n) /\ SwitchStart(n)) =>
            \E r \in BagToSet(reqs') :
               /\ CopiesIn(r, reqs') = CopiesIn(r, reqs) + 1
               /\ r.ws = n /\ r.pc \in {"display", "cdp"}
               /\ r.pc = "cdp" => (procs[r.proc].st = "free" /\ procs'[r.proc].st = "running")
    ]_vars

\* a switchWorkspace(n) has failed on its launch: n is stopped, and the pointer
\* still names the other workspace
C8_Witness ==
  /\ last.op = "switch" /\ last.res = "error"
  /\ ~tracked(last.arg)
  /\ getWorkspaceStates[last.arg].status = "stopped"
  /\ currentWorkspace \in WS \ {last.arg}
  /\ \E p \in Pids : procs[p].ws = last.arg /\ procs[p].st = "running"

\* C9 (SpecCDP): waitForCDP never polls more than maxRetries times; it throws
\* only after maxRetries polls that all failed, with the message of the last
\* failed poll; maxRetries failed polls end in the throw
C9_RetryExhaustion ==
  /\ wait.polls <= maxRetries
  /\ wait.pc = "thrown" =>
       /\ wait.polls = maxRetries
       /\ wait.seen \in Failures
       /\ wait.out = wait.seen
  /\ (wait.polls = maxRetries /\ wait.pc = "fetch") => FALSE

\* the call has thrown
C9_Witness == wait.pc = "thrown" /\ wait.polls = maxRetries

\* C10 (SpecClient): a page(name) for a name absent from the registry creates no
\* context when a live page carries the marker name
C10_AdoptsMarkedPage ==
  ~(/\ last.op = "page()" /\ last.res = "created"
    /\ \E c \in Ctxs : /\ c # last.val
                       /\ contexts[c].st = "open"
                       /\ contexts[c].marker = last.arg)

Gone == {"closing", "closed"}

\* C11 (SpecPage): a completed close(p) leaves p unregistered and its page
\* closed; a closed page never opens again; a getOrCreate(p) that finds p
\* unregistered does not answer from the registry, and the id a creating request
\* returns is that of an open page never registered before: after a close the
\* next getOrCreate(p) returns an id different from the closed page's
C11_RecreateAfterClose ==
  [][/\ \A t \in Tids : pages[t].st \in Gone => pages'[t].st \in Gone
     /\ (last'.op = "delete" /\ last'.res = "ok") =>
          /\ pageRegistry'[last'.arg].tid = 0
          /\ pages'[last'.val].st \in Gone
     /\ \A x \in Names : (pageRegistry[x].tid = 0 /\ PageStart(x)) =>
          ~(last'.op = "page" /\ last'.res = "hit")
     /\ (last'.op = "page" /\ last'.res = "created") =>
          /\ pages'[last'.val].st = "open"
          /\ pages[last'.val].name = None
    ]_vars

\* a getOrCreate(p) has created a second page for p, the first one being closed
C11_Witness ==
  /\ last.op = "page" /\ last.res = "created"
  /\ pageRegistry[last.arg].tid = last.val
  /\ \E t \in Tids \ {last.val} : pages[t] = ClosedPage

C13_StopWorkspaceFrame ==
  [][\A n \in WS \cup {Unknown} :
        WorkspaceStop(n) =>
          /\ last'.op = "stop" /\ last'.res = "ok"
          /\ IF tracked(n)
             THEN /\ workspaces' = [workspaces EXCEPT ![n] = NoInst]
                  /\ currentWorkspace' = IF currentWorkspace = n THEN None ELSE currentWorkspace
                  /\ procs[workspaces[n].proc].st = "running" => procs'[workspaces[n].proc].killed
                  /\ \A q \in Pids \ {workspaces[n].proc} : procs'[q] = procs[q]
             ELSE /\ workspaces' = workspaces
                  /\ currentWorkspace' = currentWorkspace
                  /\ procs' = procs
    ]_vars

\* a workspace that was not current has been stopped: the pointer still names
\* the other one, which is tracked
C13_Witness ==
  /\ last.op = "stop" /\ last.arg \in WS
  /\ ~tracked(last.arg)
  /\ \E p \in Pids : procs[p].ws = last.arg /\ procs[p].killed
  /\ currentWorkspace \in WS \ {last.arg}
  /\ tracked(currentWorkspace)

InLog(log, step) == \E i \in 1..Len(log) : log[i] = step

\* C14 (SpecWM): when stopAll() returns nothing is tracked, the pointer is null
\* and the process of every instance that was tracked has been signalled
C14_StopAll ==
  [][(InLog(shutlog', "procs") /\ ~InLog(shutlog, "procs")) =>
        /\ \A n \in WS : workspaces'[n] = NoInst
        /\ currentWorkspace' = None
        /\ \A n \in WS :
             (tracked(n) /\ procs[workspaces[n].proc].st = "running") =>
               procs'[workspaces[n].proc].killed
    ]_vars

\* stopAll has returned after signalling the processes of both workspaces
C14_Witness ==
  /\ InLog(shutlog, "procs")
  /\ \A n \in WS : ~tracked(n) /\ \E p \in Pids : procs[p].ws = n /\ procs[p].killed
  /\ currentWorkspace = None

\* C15 (SpecWM): a switch to a name outside the configuration answers
\* unknown-workspace and changes nothing: no process, no launch, the tracking
\* and the pointer as they were
C15_UnknownWorkspace ==
  [][SwitchStart(Unknown) =>
        /\ last'.op = "switch" /\ last'.res = "unknown"
        /\ procs' = procs
        /\ reqs' = reqs
        /\ workspaces' = workspaces
        /\ currentWorkspace' = currentWorkspace
    ]_vars

\* a switch to an unknown name has been refused while a workspace is current
C15_Witness ==
  /\ last.op = "switch" /\ last.res = "unknown" /\ last.arg = Unknown
  /\ currentWorkspace # None
  /\ tracked(currentWorkspace)

\* C16 (SpecWM): getWorkspaceStates has one state per configured name, running
\* when an instance is tracked for the name and stopped otherwise, never starting
C16_WorkspaceStates ==
  /\ DOMAIN getWorkspaceStates = WS
  /\ \A n \in WS :
       /\ getWorkspaceStates[n].status \in {"running", "stopped"}
       /\ getWorkspaceStates[n].status = "running" <=> tracked(n)

\* a launch is in flight for a workspace reported stopped
C16_Witness ==
  \E r \in Suspended :
    /\ r.pc = "cdp" /\ procs[r.proc].st = "running"
    /\ ~tracked(r.ws)
    /\ getWorkspaceStates[r.ws].status = "stopped"

\* C17 (SpecSh): a page request for an unregistered name, made while no
\* workspace is current, switches to personal (launching it when it is not
\* tracked); an entry registered while personal is current is owned by personal
\* and its page is in personal's browser; the request that follows a request
\* for the same name returns the same target id and starts no launch
C17_DefaultAutoSwitch ==
  [][/\ \A x \in Names :
          (currentWorkspace = None /\ pageRegistry[x].tid = 0 /\ PageStart(x)) =>
            \/ tracked("personal") /\ currentWorkspace' = "personal"
            \/ \E r \in BagToSet(reqs') :
                 /\ CopiesIn(r, reqs') = CopiesIn(r, reqs) + 1
                 /\ r.kind = "page" /\ r.ws = "personal" /\ r.pc \in {"display", "cdp"}
     /\ \A x \in Names :
          (pageRegistry[x].tid = 0 /\ pageRegistry'[x].tid # 0
             /\ currentWorkspace = "personal") =>
            /\ pageRegistry'[x].workspace = "personal"
            /\ procs'[conns'[pages'[pageRegistry'[x].tid].conn].ep].ws = "personal"
     /\ \A x \in Names :
          (last.op = "page" /\ last.arg = x /\ last.res \in {"created", "hit"}
             /\ PageStart(x)) =>
            /\ last'.op = "page" /\ last'.res = "hit" /\ last'.val = last.val
            /\ procs' = procs
            /\ reqs' = reqs
    ]_vars

\* the second request for a page of the default workspace, which the first
\* request launched, has answered from the registry
C17_Witness ==
  /\ last.op = "page" /\ last.res = "hit"
  /\ pageRegistry[last.arg] = [tid |-> last.val, workspace |-> "personal"]
  /\ currentWorkspace = "personal"
  /\ Cardinality({p \in Pids : procs[p].st # "free"}) = 1

\* C18 as stated (SpecPage): a close of a name the registry does not hold is
\* not an error and changes no state
C18_AbsentCloseNoError ==
  [][\A x \in Names :
        (pageRegistry[x].tid = 0 /\ DeleteStart(x)) =>
          /\ last'.res \notin {"notfound", "error"}
          /\ svars' = svars
    ]_vars

\* C18 (SpecPage): a close of a name the registry does not hold changes no
\* state and is answered 404 page not found
C18_AbsentCloseNotFound ==
  [][\A x \in Names :
        (pageRegistry[x].tid = 0 /\ DeleteStart(x)) =>
          /\ last'.op = "delete" /\ last'.res = "notfound"
          /\ svars' = svars
          /\ cvars' = cvars
    ]_vars

\* a close has found the name absent, its page having been closed before
C18_Witness ==
  /\ last.op = "delete" /\ last.res = "notfound"
  /\ pageRegistry[last.arg].tid = 0
  /\ \E t \in Tids : pages[t] = ClosedPage

\* the instance of n is tracked and its process has exited
stale(n) == tracked(n) /\ procs[workspaces[n].proc].st = "exited"

\* C19 (SpecWM): the exit of a tracked process launches nothing and leaves the
\* tracking as it is; the next stopWorkspace or switchWorkspace for the name is
\* when the stale instance stops being tracked
C19_StaleUntilStopOrSwitch ==
  [][/\ (\E p \in Pids : procs[p].st = "running" /\ procs'[p].st = "exited") =>
          /\ workspaces' = workspaces
          /\ \A q \in Pids : procs[q].st = "free" => procs'[q].st = "free"
     /\ \A n \in WS :
          (stale(n) /\ (WorkspaceStop(n) \/ SwitchStart(n))) =>
            workspaces'[n] # workspaces[n]
    ]_vars

\* a step of a switchWorkspace(n) that POST /workspace/switch called
SwitchStep(n) ==
  \/ SwitchStart(n)
  \/ \E r \in Suspended :
       /\ r.kind = "switch" /\ r.ws = n
       /\ DisplayDone(r) \/ CdpOk(r) \/ CdpFail(r)

\* C20 (SpecWM): no step of switchWorkspace(n) changes the tracked instance of
\* another workspace or its process; when it returns, n and every workspace
\* that was tracked are tracked and reported running
C20_ParallelWorkspaces ==
  [][\A n \in WS :
        SwitchStep(n) =>
          /\ \A m \in WS \ {n} :
               /\ workspaces'[m] = workspaces[m]
               /\ tracked(m) => procs'[workspaces[m].proc] = procs[workspaces[m].proc]
          /\ (last'.op = "switch" /\ last'.res \in {"hit", "launched"}) =>
               /\ tracked(n)' /\ currentWorkspace' = n
               /\ \A m \in WS :
                    (m = n \/ tracked(m)) => getWorkspaceStates'[m].status = "running"
    ]_vars

\* a switch from one running workspace to the other has launched it: both run
C20_Witness ==
  /\ last.op = "switch" /\ last.res = "launched"
  /\ currentWorkspace = last.arg
  /\ \A n \in WS : tracked(n) /\ procs[workspaces[n].proc].st = "running"
  /\ workspaces["personal"].proc # workspaces["work"].proc

\* a process the step spawns
Spawned(p) == procs[p].st = "free" /\ procs'[p].st = "running"

\* the launches suspended on the display query
Querying == {r \in Suspended : r.pc = "display"}

\* C21 (SpecDisp): a launch whose display query yields nothing spawns its
\* process headless and without a window position; once the cache holds null it
\* stays null, no later launch starts a display query and every later launch
\* spawns headless without a window position
C21_FallbackDeterminism ==
  [][/\ cachedVirtualDisplay' = None =>
          \A p \in Pids : Spawned(p) => procs'[p].headless /\ procs'[p].windowPosition = None
     /\ cachedVirtualDisplay = None =>
          /\ cachedVirtualDisplay' = None
          /\ \A r \in Querying' : CopiesIn(r, reqs') <= CopiesIn(r, reqs)
    ]_vars

\* C22 (SpecDisp): when the grace timer of a terminated process fires, the
\* forced stop signal is sent if the process is still running, and is not sent
\* if it has exited
C22_ForcedStopAfterGrace ==
  [][\A p \in Pids :
        KillTimer(p) => (procs'[p].forced <=> procs[p].st = "running")
    ]_vars

\* C23 (SpecDisp): the display query is run by at most one launch: never two
\* launches are suspended on it, and none is once the cache is resolved
C23_DisplayResolvedOnce ==
  /\ \A r1, r2 \in Querying : r1 = r2 /\ CopiesIn(r1, reqs) = 1
  /\ cachedVirtualDisplay # "undefined" => Querying = {}

\* the process the step spawns has --headless=new exactly when headless was
\* requested or no placement d was resolved, and --window-position exactly when
\* a placement was resolved
SpawnedWith(headless, d) ==
  \E p \in Pids :
    /\ Spawned(p)
    /\ procs'[p].headless <=> (headless \/ d = None)
    /\ procs'[p].windowPosition # None <=> d # None

\* C24 (SpecLaunch): for headlessRequested true and false, placement resolved
\* and null, launchChrome spawns the process with the headless flag exactly
\* when (headlessRequested or placement is null) and with a window position
\* exactly when a placement was resolved
C24_EffectiveHeadless ==
  [][/\ \A n \in WS, h \in BOOLEAN :
          (cachedVirtualDisplay # "undefined" /\ LaunchStart(n, h)) =>
            SpawnedWith(h, cachedVirtualDisplay)
     /\ \A r \in Suspended :
          DisplayDone(r) => SpawnedWith(r.headless, cachedVirtualDisplay')
    ]_vars

\* a placement is resolved; one process was launched with headless requested,
\* the other without
C24_Witness ==
  /\ cachedVirtualDisplay = "display"
  /\ \E p, q \in Pids :
       /\ procs[p].st = "running" /\ procs[p].headless /\ procs[p].windowPosition = "display"
       /\ procs[q].st = "running" /\ ~procs[q].headless /\ procs[q].windowPosition = "display"

\* the polls made so far, by the position in the loop
PollCount ==
  /\ wait.polls <= maxRetries
  /\ wait.pc = "fetch" => wait.polls = wait.i
  /\ wait.pc = "sleep" => wait.polls = wait.i + 1
  /\ wait.pc = "returned" => wait.out = "endpoint" /\ wait.polls = wait.i + 1
  /\ wait.pc = "thrown" => wait.polls = maxRetries /\ wait.i = maxRetries

\* C25 (SpecCDPLive): waitForCDP ends: it returns the endpoint of the first
\* successful poll, the polls made being the failures before it and that one,
\* or it throws after maxRetries polls; it polls no more after either
C25_PollingTerminates ==
  /\ []PollCount
  /\ [][wait.pc \in {"returned", "thrown"} => wait' = wait]_vars
  /\ <>(wait.pc \in {"returned", "thrown"})

\* the third poll succeeded after two failures
C25_Witness == wait.pc = "returned" /\ wait.polls = 3 /\ wait.i = 2 /\ wait.lastError # None

\* C26 (SpecPage): the owning workspace of every entry is not null and is the
\* workspace of the browser its page was created in
C26_OwnerIsCreator ==
  \A x \in Names :
    pageRegistry[x].tid # 0 =>
      /\ pageRegistry[x].workspace # None
      /\ pages[pageRegistry[x].tid].st = "open" =>
           procs[conns[pages[pageRegistry[x].tid].conn].ep].ws = pageRegistry[x].workspace

\* C27 (SpecPage): a connection is cached only for a workspace with a tracked
\* instance, and is one to the endpoint of that instance
C27_ConnectionOfTracked ==
  \A n \in WS :
    browserConnections[n] # 0 =>
      /\ tracked(n)
      /\ conns[browserConnections[n]].ep = workspaces[n].ep

\* C28 (SpecPage): a step removes the entry of a name only when the page of
\* that entry is closed
C28_RemovedWithOwnPage ==
  [][\A x \in Names :
        (pageRegistry[x].tid # 0 /\ pageRegistry'[x].tid = 0) =>
          pages'[pageRegistry[x].tid].st # "open"
    ]_vars

\* C29 (SpecPage): every open page that was registered under a name is the
\* page of the entry of that name: one page per name, none open and unreachable
C29_OnePagePerName ==
  \A t \in Tids :
    (pages[t].st = "open" /\ pages[t].name # None) =>
      pageRegistry[pages[t].name].tid = t

\* C30 (SpecPage): the endpoint a page request answers with is not empty and is
\* the endpoint of the workspace that owns the returned page
C30_EndpointOfOwner ==
  (last.op = "page" /\ last.res \in {"hit", "created"}) =>
    /\ last.ep # 0
    /\ pageRegistry[last.arg].workspace \in WS
    /\ last.ep = workspaces[pageRegistry[last.arg].workspace].ep

\* C31 (SpecSh): once a termination signal has started the shutdown, a step in
\* which the signal handler ends the server process leaves the shutdown run to
\* its end: stopAll has signalled the browser processes
C31_ExitAfterShutdown ==
  [][(~exited /\ exited' /\ handlers /\ shut'.by = "signal") => InLog(shutlog', "procs")]_vars

\* C32 (SpecWM): every running process that was sent no signal and whose launch
\* is not in flight is the process of a tracked instance
C32_NoOrphanProcess ==
  \A p \in Pids :
    (/\ procs[p].st = "running" /\ ~procs[p].killed
     /\ ~\E r \in Suspended : r.pc = "cdp" /\ r.proc = p) =>
      \E n \in WS : workspaces[n].proc = p

====
